---- MODULE Spec2Model ----
(***************************************************************************)
(* A model of ca4: a one-dimensional, four-symbol cellular automaton with   *)
(* wrap-around neighbourhoods (src/src/main.rs), its seed and theme store   *)
(* (src/src/lib.rs), and the driver that renders one row per generation.    *)
(*                                                                         *)
(* Vectors are TLA+ sequences (1-based); the code's 0-based index k is the  *)
(* sequence index k+1.  A u64 is too wide for TLC's integers, so a rule is   *)
(* the set of its set bit positions (a subset of 0..63) and a seed value is *)
(* its 16 hexadecimal digits, most significant first.                       *)
(***************************************************************************)
EXTENDS Integers, Sequences, FiniteSets, TLC

VARIABLES build, st, stOld, stCall, seedIO, mem, thCall, opts, run

vars == <<build, st, stOld, stCall, seedIO, mem, thCall, opts, run>>

\* ------------------------------------------------------------------ bounds
MaxCols == 4
MaxIdx == 5
MaxArgLen == 3
MaxSeedDigits == 2
MaxBytes == 45
UsizeBits == 8
MaxRows == 3
RngBits == 5
ReproCols == 2
ReproRows == 2

\* ------------------------------------------------------- program constants
U64Bits == 64
U8Mod == 256
U64HexDigits == 16
SeedWidth == 8
THEME_SIZE == 20

Builds == {"debug", "release"}
Symbols == 0..3

\* --------------------------------------------------------- u8 arithmetic
RECURSIVE BitOr(_, _)
BitOr(x, y) ==
  IF x = 0 THEN y
  ELSE IF y = 0 THEN x
  ELSE (IF x % 2 = 1 \/ y % 2 = 1 THEN 1 ELSE 0) + 2 * BitOr(x \div 2, y \div 2)

RECURSIVE Pow2(_)
Pow2(k) == IF k = 0 THEN 1 ELSE 2 * Pow2(k - 1)

\* a << k on a u8, k < 8: the bits shifted past bit 7 are dropped
Shl8(a, k) == (a * Pow2(k)) % U8Mod

\* ------------------------------------------------------------------ Rule
RuleZero == {}
RuleMax == 0..(U64Bits - 1)
RuleLow == {0, 1}
RuleThirds == {b \in 0..(U64Bits - 1) : b % 3 = 0}
RuleMixed == {0, 3, 4, 9, 16, 17, 20, 33, 48, 49, 51, 62}
RuleTop == {62, 63}
Rules == {RuleZero, RuleMax, RuleLow, RuleThirds, RuleMixed, RuleTop}

Bit(rule, b) == IF b \in rule THEN 1 ELSE 0

\* --------------------------------------- the objects before any call
Zeros(n) == [k \in 1..n |-> 0]
U64Zero == Zeros(U64HexDigits)

\* no State call made yet
NoCall == [fn |-> "with_size", i |-> 0, value |-> 0, rule |-> RuleZero,
           panic |-> FALSE, ret |-> 0]

\* no State under test
NoState == [NoCall EXCEPT !.fn = "none"]

\* Themes::open done, no other call yet
NoThemesCall == [fn |-> "open", idx |-> 0, panic |-> FALSE, colors |-> <<>>,
                 reads |-> {}, len |-> 0]

\* no Options parsed
NoOptions == [cols |-> 0, rows |-> 0, seed |-> U64Zero]

\* no Seed made yet
SeedIdle == [phase |-> "start", via |-> "none", arg |-> <<>>, ok |-> FALSE, v |-> U64Zero,
             err |-> <<>>, shown |-> <<>>,
             back |-> [ok |-> FALSE, v |-> U64Zero, err |-> <<>>]]

\* Rule::apply: ((self.rule >> p) & 3) as u8.  A shift by 64 or more panics
\* where overflow checks are on and is taken modulo 64 where they are off.
RuleApply_Table(rule, p, bld) ==
  IF p >= U64Bits /\ bld = "debug" THEN [panic |-> TRUE, v |-> 0]
  ELSE LET s == 2 * (p % U64Bits)
       IN [panic |-> FALSE, v |-> Bit(rule, s) + 2 * Bit(rule, s + 1)]

RuleApply_Mask7(rule, p, bld) ==
  IF p >= U64Bits /\ bld = "debug" THEN [panic |-> TRUE, v |-> 0]
  ELSE LET s == p % U64Bits
       IN [panic |-> FALSE,
           v |-> Bit(rule, s) + 2 * Bit(rule, s + 1) + 4 * Bit(rule, s + 2)]

RuleApply(rule, p, bld) ==
  IF p >= U64Bits /\ bld = "debug" THEN [panic |-> TRUE, v |-> 0]
  ELSE LET s == p % U64Bits
       IN [panic |-> FALSE, v |-> Bit(rule, s) + 2 * Bit(rule, s + 1)]

\* ----------------------------------------------------------------- State
\* i32 `%`: the remainder has the sign of the dividend
TruncRem(i, n) == IF i >= 0 THEN i % n ELSE -((-i) % n)

RemEuclid_Trunc(i, n) ==
  IF n = 0 THEN [panic |-> TRUE, v |-> 0]
  ELSE [panic |-> FALSE, v |-> TruncRem(i, n)]

\* i32::rem_euclid: r = i % n, then r + |n| when r < 0; n = 0 panics
RemEuclid(i, n) ==
  IF n = 0 THEN [panic |-> TRUE, v |-> 0]
  ELSE LET r == TruncRem(i, n)
       IN [panic |-> FALSE, v |-> IF r < 0 THEN r + n ELSE r]

\* State::with_size
WithSize(n) == [k \in 1..n |-> 0]

\* self.v[k as usize]: a negative k casts to an index past the end
VecIndex(v, k) ==
  IF k >= 0 /\ k < Len(v) THEN [panic |-> FALSE, v |-> v[k + 1]]
  ELSE [panic |-> TRUE, v |-> 0]

\* State::get
StateGet(v, i) ==
  LET r == RemEuclid(i, Len(v))
  IN IF r.panic THEN [panic |-> TRUE, v |-> 0] ELSE VecIndex(v, r.v)

\* State::set
StateSet(v, i, value) ==
  LET r == RemEuclid(i, Len(v))
  IN IF r.panic \/ r.v < 0 \/ r.v >= Len(v) THEN [panic |-> TRUE, v |-> v]
     ELSE [panic |-> FALSE, v |-> [v EXCEPT ![r.v + 1] = value]]

\* the neighbourhood code of position i: a << 4 | b << 2 | c on u8
CodeAt(v, i) ==
  LET a == StateGet(v, i - 1)
      b == StateGet(v, i)
      c == StateGet(v, i + 1)
  IN IF a.panic \/ b.panic \/ c.panic THEN [panic |-> TRUE, v |-> 0]
     ELSE [panic |-> FALSE, v |-> BitOr(BitOr(Shl8(a.v, 4), Shl8(b.v, 2)), c.v)]

\* the codes State::apply hands to Rule::apply, in order
ApplyCodes(v) == [k \in 1..Len(v) |-> CodeAt(v, k - 1)]

\* a sweep that writes the new symbols into the row it is still reading
RECURSIVE InPlaceFrom(_, _, _, _)
InPlaceFrom(v, k, rule, bld) ==
  IF k > Len(v) THEN [panic |-> FALSE, v |-> v]
  ELSE LET c == CodeAt(v, k - 1)
           o == RuleApply(rule, c.v, bld)
       IN IF c.panic \/ o.panic THEN [panic |-> TRUE, v |-> v]
          ELSE InPlaceFrom([v EXCEPT ![k] = o.v], k + 1, rule, bld)

StateApply_InPlace(v, rule, bld) == InPlaceFrom(v, 1, rule, bld)

\* State::apply
StateApply(v, rule, bld) ==
  LET codes == ApplyCodes(v)
      outs == [k \in 1..Len(v) |-> RuleApply(rule, codes[k].v, bld)]
  IN IF \E k \in 1..Len(v) : codes[k].panic \/ outs[k].panic
     THEN [panic |-> TRUE, v |-> v]
     ELSE [panic |-> FALSE, v |-> [k \in 1..Len(v) |-> outs[k].v]]

\* ------------------------------------------------------------------ Seed
\* a u64 as its 16 hexadecimal digits, most significant first
U64Max == [k \in 1..U64HexDigits |-> 15]
U64FromDigits(ds) == Zeros(U64HexDigits - Len(ds)) \o ds

LowerHex == <<"0", "1", "2", "3", "4", "5", "6", "7",
              "8", "9", "a", "b", "c", "d", "e", "f">>
UpperHex == <<"0", "1", "2", "3", "4", "5", "6", "7",
              "8", "9", "A", "B", "C", "D", "E", "F">>

\* char::to_digit(16); -1 stands for None
ToDigit(c) ==
  IF \E k \in 1..16 : LowerHex[k] = c THEN (CHOOSE k \in 1..16 : LowerHex[k] = c) - 1
  ELSE IF \E k \in 1..16 : UpperHex[k] = c
       THEN (CHOOSE k \in 1..16 : UpperHex[k] = c) - 1
       ELSE -1

\* the digit loop of u64::from_str_radix(_, 16): result = result * 16 + digit,
\* an invalid digit reported before the overflow of the same step
RECURSIVE ParseDigits(_, _)
ParseDigits(acc, cs) ==
  IF cs = <<>> THEN [ok |-> TRUE, v |-> acc, kind |-> "none"]
  ELSE LET d == ToDigit(Head(cs))
       IN IF d < 0 THEN [ok |-> FALSE, v |-> U64Zero, kind |-> "InvalidDigit"]
          ELSE IF Head(acc) # 0
               THEN [ok |-> FALSE, v |-> U64Zero, kind |-> "PosOverflow"]
               ELSE ParseDigits(Tail(acc) \o <<d>>, Tail(cs))

\* u64::from_str_radix(s, 16): empty text, a lone sign, a non-digit and an
\* overflow are errors; one leading '+' is accepted, '-' is not a digit
FromStrRadix16(s) ==
  IF s = <<>> THEN [ok |-> FALSE, v |-> U64Zero, kind |-> "Empty"]
  ELSE IF Head(s) \in {"+", "-"} /\ Tail(s) = <<>>
       THEN [ok |-> FALSE, v |-> U64Zero, kind |-> "InvalidDigit"]
       ELSE IF Head(s) = "+" THEN ParseDigits(U64Zero, Tail(s))
            ELSE ParseDigits(U64Zero, s)

\* <Seed as FromStr>::from_str
SeedFromStr(s) == FromStrRadix16(s)

\* Seed::from_arg: Err(format!("invalid seed: {}", s))
SeedFromArg(s) ==
  LET r == SeedFromStr(s)
  IN IF r.ok THEN [ok |-> TRUE, v |-> r.v, err |-> <<>>]
     ELSE [ok |-> FALSE, v |-> U64Zero, err |-> <<"invalid seed: ">> \o s]

\* the digits of {:x}: no leading zeros, at least one digit
RECURSIVE Significant(_)
Significant(ds) ==
  IF Len(ds) > 1 /\ Head(ds) = 0 THEN Significant(Tail(ds)) ELSE ds

HexText(ds) == [k \in 1..Len(ds) |-> LowerHex[ds[k] + 1]]

SeedDisplay_Low32(v) == HexText(SubSeq(v, U64HexDigits - SeedWidth + 1, U64HexDigits))

\* <Seed as Display>::fmt: {:08x}
SeedDisplay(v) ==
  LET ds == Significant(v)
  IN HexText(IF Len(ds) < SeedWidth THEN Zeros(SeedWidth - Len(ds)) \o ds ELSE ds)

\* ----------------------------------------------- Seed exercised directly
ArgChars == {"0", "7", "f", "F", "g", "+", "-", " "}
TextsUpTo(n) == UNION {[1..k -> ArgChars] : k \in 0..n}
Repeat(c, n) == [k \in 1..n |-> c]
LongArgs == {Repeat("f", U64HexDigits), Repeat("f", U64HexDigits + 1),
             <<"+">> \o Repeat("F", U64HexDigits), <<"1">> \o Repeat("0", U64HexDigits)}
ArgTexts == TextsUpTo(MaxArgLen) \cup LongArgs

SampleDigits == {0, 1, 10, 15}
SeedValues ==
  {U64Max} \cup
  {U64FromDigits(ds \o Zeros(z)) :
     ds \in UNION {[1..k -> SampleDigits] : k \in 0..MaxSeedDigits}, z \in {0, 6, 7, 13}}

InitSeed ==
  /\ build \in Builds
  /\ st = <<>>
  /\ stOld = <<>>
  /\ stCall = NoState
  /\ seedIO = SeedIdle
  /\ mem = <<>>
  /\ thCall = NoThemesCall
  /\ opts = NoOptions
  /\ run = <<>>

\* Seed::new(v), and Seed::default() with the clock reading v
SeedNew(v) ==
  /\ seedIO.phase = "start"
  /\ seedIO' = [seedIO EXCEPT !.phase = "have", !.via = "new", !.ok = TRUE, !.v = v]
  /\ UNCHANGED <<build, st, stOld, stCall, mem, thCall, opts, run>>

\* Seed::from_arg(s)
CallFromArg(s) ==
  /\ seedIO.phase = "start"
  /\ LET r == SeedFromArg(s)
     IN seedIO' = [seedIO EXCEPT !.phase = IF r.ok THEN "have" ELSE "error",
                                 !.via = "from_arg", !.arg = s, !.ok = r.ok, !.v = r.v, !.err = r.err]
  /\ UNCHANGED <<build, st, stOld, stCall, mem, thCall, opts, run>>

\* format!("{}", seed)
CallDisplay ==
  /\ seedIO.phase = "have"
  /\ seedIO' = [seedIO EXCEPT !.phase = "shown", !.shown = SeedDisplay(seedIO.v)]
  /\ UNCHANGED <<build, st, stOld, stCall, mem, thCall, opts, run>>

\* Seed::from_arg on the displayed text
CallReparse ==
  /\ seedIO.phase = "shown"
  /\ seedIO' = [seedIO EXCEPT !.phase = "reparsed", !.back = SeedFromArg(seedIO.shown)]
  /\ UNCHANGED <<build, st, stOld, stCall, mem, thCall, opts, run>>

NextSeed ==
  \/ \E v \in SeedValues : SeedNew(v)
  \/ \E s \in ArgTexts : CallFromArg(s)
  \/ CallDisplay
  \/ CallReparse

SpecSeed == InitSeed /\ [][NextSeed]_vars

\* -------------------------------------------------------- claims on Seed
HexCharSet == {"0", "1", "2", "3", "4", "5", "6", "7", "8", "9",
               "a", "b", "c", "d", "e", "f", "A", "B", "C", "D", "E", "F"}
LowerHexSet == {"0", "1", "2", "3", "4", "5", "6", "7", "8", "9",
                "a", "b", "c", "d", "e", "f"}

\* C5 as stated: every text that is empty or holds a character that is not a
\* hexadecimal digit, a leading '+' or '-' included, fails to parse with the
\* error "invalid seed: <text>" and yields no Seed.
C5_Original ==
  (/\ seedIO.via = "from_arg"
   /\ \/ seedIO.arg = <<>>
      \/ \E k \in 1..Len(seedIO.arg) : seedIO.arg[k] \notin HexCharSet)
  => /\ seedIO.phase = "error"
     /\ ~seedIO.ok
     /\ seedIO.err = <<"invalid seed: ">> \o seedIO.arg

\* the last four hexadecimal digits of a u64 as a number, the rest being zero
IsSmall(v, n) ==
  /\ \A k \in 1..(U64HexDigits - 4) : v[k] = 0
  /\ v[13] * 4096 + v[14] * 256 + v[15] * 16 + v[16] = n

\* C9: Display gives lowercase hexadecimal text of at least 8 digits, padded
\* with zeros to 8 and never truncated, and parsing that text gives the value
\* back; "ff" parses to 255 and displays as "000000ff".
C9_SeedRoundTrip ==
  /\ seedIO.phase \in {"shown", "reparsed"} =>
       LET t == seedIO.shown
           n == Len(t)
       IN /\ n >= SeedWidth
          /\ n <= U64HexDigits
          /\ \A k \in 1..n : t[k] \in LowerHexSet
          /\ n > SeedWidth => t[1] # "0"
          /\ \A k \in 1..U64HexDigits :
               IF k <= U64HexDigits - n THEN seedIO.v[k] = 0
               ELSE LowerHex[seedIO.v[k] + 1] = t[k - (U64HexDigits - n)]
  /\ seedIO.phase = "reparsed" =>
       seedIO.back = [ok |-> TRUE, v |-> seedIO.v, err |-> <<>>]
  /\ (seedIO.via = "from_arg" /\ seedIO.arg = <<"f", "f">>) =>
       /\ seedIO.ok /\ IsSmall(seedIO.v, 255)
       /\ seedIO.phase \in {"shown", "reparsed"} =>
            seedIO.shown = <<"0", "0", "0", "0", "0", "0", "f", "f">>

C9_Witness ==
  /\ seedIO.phase = "reparsed"
  /\ seedIO.v = U64FromDigits(<<15, 10>> \o Zeros(13))
  /\ Len(seedIO.shown) = 15
  /\ seedIO.back.ok
  /\ seedIO.back.v = seedIO.v

\* ---------------------------------------------------------------- Themes
\* usize arithmetic, with the width scaled down to UsizeBits: an overflow
\* panics where overflow checks are on and wraps where they are off
UsizeMod == Pow2(UsizeBits)

UMul(a, b, bld) ==
  IF a * b >= UsizeMod /\ bld = "debug" THEN [panic |-> TRUE, v |-> 0]
  ELSE [panic |-> FALSE, v |-> (a * b) % UsizeMod]

UAdd(a, b, bld) ==
  IF a + b >= UsizeMod /\ bld = "debug" THEN [panic |-> TRUE, v |-> 0]
  ELSE [panic |-> FALSE, v |-> (a + b) % UsizeMod]

\* Color::from_rgb_u32 of BigEndian::read_u32 of four bytes: the first byte
\* is dropped, alpha is 0xff
ColorFromBytes(m, b) == [a |-> 255, r |-> m[b + 2], g |-> m[b + 3], b |-> m[b + 4]]

\* Themes::len
ThemesLen(m) == Len(m) \div THEME_SIZE

\* one pass of the loop of Themes::get: &self.mem[b..b + 4] is bounds-checked
RECURSIVE GetFrom(_, _, _, _, _, _)
GetFrom(m, off, i, colors, reads, bld) ==
  IF i = 5 THEN [panic |-> FALSE, colors |-> colors, reads |-> reads]
  ELSE LET i4 == UMul(i, 4, bld)
           b == UAdd(off, i4.v, bld)
           e == UAdd(b.v, 4, bld)
       IN IF i4.panic \/ b.panic \/ e.panic \/ b.v > e.v \/ e.v > Len(m)
          THEN [panic |-> TRUE, colors |-> <<>>, reads |-> reads]
          ELSE GetFrom(m, off, i + 1, Append(colors, ColorFromBytes(m, b.v)),
                       reads \cup (b.v..(e.v - 1)), bld)

\* Themes::get
ThemesGet(m, idx, bld) ==
  LET off == UMul(idx, THEME_SIZE, bld)
  IN IF off.panic THEN [panic |-> TRUE, colors |-> <<>>, reads |-> {}]
     ELSE GetFrom(m, off.v, 0, <<>>, {}, bld)

\* --------------------------------------------- Themes exercised directly
\* a mapped file of n bytes
FileOf(n, p) == [k \in 1..n |-> ((k - 1) * p + 1) % U8Mod]
BytePatterns == {1, 37}

InitThemes ==
  /\ build \in Builds
  /\ st = <<>>
  /\ stOld = <<>>
  /\ stCall = NoState
  /\ seedIO = SeedIdle
  /\ \E n \in 0..MaxBytes, p \in BytePatterns : mem = FileOf(n, p)
  /\ thCall = NoThemesCall
  /\ opts = NoOptions
  /\ run = <<>>

CallThemesGet(idx) ==
  /\ thCall.fn = "open"
  /\ LET r == ThemesGet(mem, idx, build)
     IN thCall' = [fn |-> "get", idx |-> idx, panic |-> r.panic,
                   colors |-> r.colors, reads |-> r.reads, len |-> 0]
  /\ UNCHANGED <<build, st, stOld, stCall, seedIO, mem, opts, run>>

CallThemesLen ==
  /\ thCall.fn = "open"
  /\ thCall' = [thCall EXCEPT !.fn = "len", !.len = ThemesLen(mem)]
  /\ UNCHANGED <<build, st, stOld, stCall, seedIO, mem, opts, run>>

NextThemes ==
  \/ \E idx \in 0..(UsizeMod - 1) : CallThemesGet(idx)
  \/ CallThemesLen

SpecThemes == InitThemes /\ [][NextThemes]_vars

\* ------------------------------------------------------ claims on Themes
\* C4 as stated: with B bytes mapped and L = B div 20, get(i) returns exactly
\* 5 colors read from bytes [20i, 20i+20) for every i < L, and for every
\* i >= L ends in a panic, returning nothing and reading nothing outside
\* [0, B).
C4_Original ==
  thCall.fn = "get" =>
    LET L == Len(mem) \div 20
        i == thCall.idx
    IN /\ i < L => /\ ~thCall.panic
                   /\ Len(thCall.colors) = 5
                   /\ thCall.reads = (20 * i)..(20 * i + 19)
       /\ i >= L => thCall.panic /\ thCall.colors = <<>>
       /\ thCall.reads \subseteq 0..(Len(mem) - 1)

\* ---------------------------------------------- State exercised directly
Idx == (-MaxIdx)..MaxIdx

\* every row State::with_size and State::set can build, up to MaxCols cells
Rows(n) == [1..n -> Symbols]

\* the row of main: State::with_size(cols), then set(cols / 2, 3)
SeedRow(cols) == StateSet(WithSize(cols), cols \div 2, 3)

ScenarioCols == 7

InitState ==
  /\ build \in Builds
  /\ \/ \E n \in 0..MaxCols : st \in Rows(n)
     \/ st = SeedRow(ScenarioCols).v
  /\ stOld = <<>>
  /\ stCall = NoCall
  /\ seedIO = SeedIdle
  /\ mem = <<>>
  /\ thCall = NoThemesCall
  /\ opts = NoOptions
  /\ run = <<>>

CallGet(i) ==
  /\ stCall.fn = "with_size"
  /\ LET r == StateGet(st, i)
     IN stCall' = [fn |-> "get", i |-> i, value |-> 0, rule |-> RuleZero,
                   panic |-> r.panic, ret |-> r.v]
  /\ stOld' = st
  /\ UNCHANGED <<build, st, seedIO, mem, thCall, opts, run>>

CallSet(i, value) ==
  /\ stCall.fn = "with_size"
  /\ LET r == StateSet(st, i, value)
     IN /\ st' = r.v
        /\ stCall' = [fn |-> "set", i |-> i, value |-> value, rule |-> RuleZero,
                      panic |-> r.panic, ret |-> 0]
  /\ stOld' = st
  /\ UNCHANGED <<build, seedIO, mem, thCall, opts, run>>

CallApply(rule) ==
  /\ stCall.fn = "with_size"
  /\ LET r == StateApply(st, rule, build)
     IN /\ st' = r.v
        /\ stCall' = [fn |-> "apply", i |-> 0, value |-> 0, rule |-> rule,
                      panic |-> r.panic, ret |-> 0]
  /\ stOld' = st
  /\ UNCHANGED <<build, seedIO, mem, thCall, opts, run>>

NextState ==
  \/ \E i \in Idx : CallGet(i)
  \/ \E i \in Idx, value \in Symbols : CallSet(i, value)
  \/ \E rule \in Rules : CallApply(rule)

SpecState == InitState /\ [][NextState]_vars

\* ------------------------------------------------------- claims on State
\* the 0-based cell k of row v, neighbours taken circularly
Cell(v, k) == v[(k % Len(v)) + 1]

\* (rule >> k) & 3 for a shift k below 64
ShrAnd3(rule, k) == Bit(rule, k) + 2 * Bit(rule, k + 1)

AllCells(v, x) == \A k \in 1..Len(v) : v[k] = x

\* C1: State.apply(rule) never fails and returns a row of the same length
\* whose cell i is (rule >> (16*old[i-1] + 4*old[i] + old[i+1])) & 3, the
\* neighbours read circularly from the row apply was called on.
C1_ApplyFormula ==
  stCall.fn = "apply" =>
    /\ ~stCall.panic
    /\ Len(st) = Len(stOld)
    /\ \A i \in 0..(Len(stOld) - 1) :
         st[i + 1] = ShrAnd3(stCall.rule,
                             16 * Cell(stOld, i - 1) + 4 * Cell(stOld, i)
                               + Cell(stOld, i + 1))

C1_Witness ==
  /\ stCall.fn = "apply"
  /\ stCall.rule = RuleMixed
  /\ Len(stOld) = 3
  /\ stOld[1] # stOld[3]
  /\ st # stOld
  /\ ~AllCells(st, 0)

\* C2: for a row of length n > 0 and every index i, get(i) = get(i+n) =
\* get(i-n) is the cell i mod n; after set(i, v), get(j) is v exactly for the
\* j congruent to i modulo n and is what it was for every other j.
C2_CircularIndexing ==
  LET n == Len(st)
  IN n > 0 =>
       /\ \A i \in Idx :
            /\ StateGet(st, i) = [panic |-> FALSE, v |-> Cell(st, i)]
            /\ StateGet(st, i) = StateGet(st, i + n)
            /\ StateGet(st, i) = StateGet(st, i - n)
       /\ stCall.fn = "get" =>
            ~stCall.panic /\ stCall.ret = Cell(stOld, stCall.i)
       /\ stCall.fn = "set" =>
            /\ ~stCall.panic
            /\ Len(st) = Len(stOld)
            /\ \A j \in Idx :
                 StateGet(st, j) =
                   IF (j - stCall.i) % n = 0
                   THEN [panic |-> FALSE, v |-> stCall.value]
                   ELSE StateGet(stOld, j)

C2_Witness ==
  /\ stCall.fn = "set"
  /\ stCall.i = -4
  /\ stCall.value = 3
  /\ Len(st) = 3
  /\ stOld = <<1, 2, 1>>
  /\ st = <<1, 2, 3>>

\* the cells of v whose circular neighbourhood is 3,3,3
AllThrees(v, i) == Cell(v, i - 1) = 3 /\ Cell(v, i) = 3 /\ Cell(v, i + 1) = 3

\* C3 as stated: rule u64::MAX maps each of the 64 codes to 3, so apply turns
\* any row into all 3's.
C3_Original ==
  /\ \A code \in 0..63 : RuleApply(RuleMax, code, build).v = 3
  /\ (stCall.fn = "apply" /\ stCall.rule = RuleMax) => AllCells(st, 3)

\* C3 amended: rule u64::MAX maps the codes 0..62 to 3 and code 63 to 1 (the
\* shift by 63 leaves one bit), so apply turns a row into 3's except at the
\* cells whose neighbourhood was 3,3,3, which become 1; the 7-cell row with
\* only cell 3 set becomes all 3's.
C3_MaxRule ==
  /\ \A code \in 0..62 : RuleApply(RuleMax, code, build) = [panic |-> FALSE, v |-> 3]
  /\ RuleApply(RuleMax, 63, build) = [panic |-> FALSE, v |-> 1]
  /\ (stCall.fn = "apply" /\ stCall.rule = RuleMax) =>
       /\ ~stCall.panic
       /\ Len(st) = Len(stOld)
       /\ \A i \in 0..(Len(stOld) - 1) :
            st[i + 1] = IF AllThrees(stOld, i) THEN 1 ELSE 3
       /\ stOld = SeedRow(ScenarioCols).v => AllCells(st, 3)

C3_Witness ==
  /\ stCall.fn = "apply"
  /\ stCall.rule = RuleMax
  /\ stOld = <<3, 3, 3, 0>>
  /\ st = <<3, 1, 3, 3>>

\* ------------------------------------------------------ the random stream
\* Pcg64 stands outside the repository: it is a deterministic generator whose
\* state is fixed by the seed and advanced by every draw.  Here: a full-period
\* congruential generator on RngBits bits.
RngMod == Pow2(RngBits)

RECURSIVE Mix(_, _)
Mix(acc, ds) ==
  IF ds = <<>> THEN acc ELSE Mix((acc * 5 + Head(ds) + 1) % RngMod, Tail(ds))

\* Pcg64::seed_from_u64(options.seed.value())
SeedFromU64(v) == Mix(0, v)

RngStep(s) == (s * 5 + 3) % RngMod

\* rng.gen::<u64>(): one draw, spread over the 64 bits of the rule
GenU64(s) ==
  LET n == RngStep(s)
  IN [rng |-> n, bits |-> {b \in 0..(U64Bits - 1) : (n \div Pow2(b % RngBits)) % 2 = 1}]

\* Uniform::new(0, len).sample(rng): draws until one falls in the unbiased zone
RECURSIVE UniformSample(_, _)
UniformSample(s, len) ==
  LET n == RngStep(s)
      zone == RngMod - (RngMod % len)
  IN IF n < zone THEN [rng |-> n, ix |-> n % len] ELSE UniformSample(n, len)

\* Themes::pick; Uniform::new(0, 0) panics
ThemesPick(m, s, bld) ==
  IF ThemesLen(m) = 0
  THEN [panic |-> TRUE, ix |-> 0, colors |-> <<>>, rng |-> s]
  ELSE LET u == UniformSample(s, ThemesLen(m))
           g == ThemesGet(m, u.ix, bld)
       IN [panic |-> g.panic, ix |-> u.ix, colors |-> g.colors, rng |-> u.rng]

\* ---------------------------------------------------------------- driver
\* the rule drawn before the theme, and only when none was given
Resolve_RuleFirst(seed, m, optRule, bld) ==
  LET g == GenU64(SeedFromU64(seed))
      p == ThemesPick(m, IF optRule.some THEN SeedFromU64(seed) ELSE g.rng, bld)
  IN [panic |-> p.panic, theme |-> p.ix, colors |-> p.colors,
      rule |-> IF optRule.some THEN optRule.rule ELSE g.bits]

\* main: the stream from the seed, themes.pick, then
\* options.rule.unwrap_or(Rule::new(rng.gen())), whose argument is always drawn
Resolve(seed, m, optRule, bld) ==
  LET p == ThemesPick(m, SeedFromU64(seed), bld)
      g == GenU64(p.rng)
  IN [panic |-> p.panic, theme |-> p.ix, colors |-> p.colors,
      rule |-> IF optRule.some THEN optRule.rule ELSE g.bits]

NewRun(optRule) ==
  [pc |-> "seeded", optRule |-> optRule, theme |-> 0, colors |-> <<>>,
   rule |-> RuleZero, state |-> <<>>, j |-> 0, rendered |-> <<>>,
   painted |-> {}, codes |-> {}]

\* main up to the loop: resolve theme and rule, build the first row
Configured(r, o, m, bld) ==
  LET c == Resolve(o.seed, m, r.optRule, bld)
      s0 == SeedRow(o.cols)
  IN IF c.panic THEN [r EXCEPT !.pc = "panicked"]
     ELSE IF s0.panic
          THEN [r EXCEPT !.pc = "panicked", !.theme = c.theme,
                         !.colors = c.colors, !.rule = c.rule]
          ELSE [r EXCEPT !.pc = "running", !.theme = c.theme, !.colors = c.colors,
                         !.rule = c.rule, !.state = s0.v]

\* the inner loop of main: the cells read with state.get(i), and a rectangle
\* in colors[v] for every cell v that is not 0
PaintRow(state, colors, j, cols) ==
  LET cells == [i \in 1..cols |-> StateGet(state, i - 1)]
  IN [panic |-> \E i \in 1..cols :
                  cells[i].panic \/ (cells[i].v # 0 /\ cells[i].v >= Len(colors)),
      cells |-> [i \in 1..cols |-> cells[i].v],
      painted |-> {[j |-> j, i |-> i - 1, v |-> cells[i].v] :
                     i \in {k \in 1..cols : cells[k].v # 0}}]

RowStep_ApplyFirst(r, o, bld) ==
  LET a == StateApply(r.state, r.rule, bld)
      p == PaintRow(a.v, r.colors, r.j, o.cols)
  IN IF p.panic \/ a.panic THEN [r EXCEPT !.pc = "panicked"]
     ELSE [r EXCEPT !.rendered = Append(@, p.cells),
                    !.painted = @ \cup p.painted,
                    !.codes = @ \cup {ApplyCodes(r.state)[k].v : k \in 1..Len(r.state)},
                    !.state = a.v, !.j = @ + 1]

RowStep_NoAdvance(r, o, bld) ==
  LET p == PaintRow(r.state, r.colors, r.j, o.cols)
      a == StateApply(r.state, r.rule, bld)
  IN IF p.panic \/ a.panic THEN [r EXCEPT !.pc = "panicked"]
     ELSE [r EXCEPT !.rendered = Append(@, p.cells),
                    !.painted = @ \cup p.painted,
                    !.codes = @ \cup {ApplyCodes(r.state)[k].v : k \in 1..Len(r.state)},
                    !.j = @ + 1]

\* one pass of `for j in 0..options.rows`: paint the row, then
\* state = state.apply(rule)
RowStep(r, o, bld) ==
  LET p == PaintRow(r.state, r.colors, r.j, o.cols)
      a == StateApply(r.state, r.rule, bld)
  IN IF p.panic \/ a.panic THEN [r EXCEPT !.pc = "panicked"]
     ELSE [r EXCEPT !.rendered = Append(@, p.cells),
                    !.painted = @ \cup p.painted,
                    !.codes = @ \cup {ApplyCodes(r.state)[k].v : k \in 1..Len(r.state)},
                    !.state = a.v, !.j = @ + 1]

NoRule == [some |-> FALSE, rule |-> RuleZero]
SomeRule(rule) == [some |-> TRUE, rule |-> rule]
OptRules == {NoRule} \cup {SomeRule(rule) : rule \in Rules}
ReproOptRules == {NoRule, SomeRule(RuleZero), SomeRule(RuleMixed)}

DriverFiles == {FileOf(n, 37) : n \in {0, THEME_SIZE, 2 * THEME_SIZE + 7, 3 * THEME_SIZE}}
DriverSeeds == {U64Zero, U64FromDigits(<<15, 15>>), U64Max}

InitDriver ==
  /\ build \in Builds
  /\ st = <<>>
  /\ stOld = <<>>
  /\ stCall = NoState
  /\ seedIO = SeedIdle
  /\ thCall = NoThemesCall
  /\ mem \in DriverFiles
  /\ opts \in [cols : 0..MaxCols, rows : 0..MaxRows, seed : DriverSeeds]
  /\ \E optRule \in OptRules : run = <<NewRun(optRule)>>

\* two runs of the program on the same seed, store, cols and rows
InitRepro ==
  /\ build \in Builds
  /\ st = <<>>
  /\ stOld = <<>>
  /\ stCall = NoState
  /\ seedIO = SeedIdle
  /\ thCall = NoThemesCall
  /\ mem \in DriverFiles
  /\ opts \in [cols : 1..ReproCols, rows : 0..ReproRows, seed : DriverSeeds]
  /\ \E o1 \in ReproOptRules, o2 \in ReproOptRules : run = <<NewRun(o1), NewRun(o2)>>

MainConfigure(r) ==
  /\ run[r].pc = "seeded"
  /\ run' = [run EXCEPT ![r] = Configured(run[r], opts, mem, build)]
  /\ UNCHANGED <<build, st, stOld, stCall, seedIO, mem, thCall, opts>>

MainRow(r) ==
  /\ run[r].pc = "running"
  /\ run[r].j < opts.rows
  /\ run' = [run EXCEPT ![r] = RowStep(run[r], opts, build)]
  /\ UNCHANGED <<build, st, stOld, stCall, seedIO, mem, thCall, opts>>

\* img.write_to_png, Ok(())
MainFinish(r) ==
  /\ run[r].pc = "running"
  /\ run[r].j >= opts.rows
  /\ run' = [run EXCEPT ![r].pc = "done"]
  /\ UNCHANGED <<build, st, stOld, stCall, seedIO, mem, thCall, opts>>

NextDriver ==
  \/ \E r \in DOMAIN run : MainConfigure(r)
  \/ \E r \in DOMAIN run : MainRow(r)
  \/ \E r \in DOMAIN run : MainFinish(r)

SpecDriver == InitDriver /\ [][NextDriver]_vars

SpecRepro == InitRepro /\ [][NextDriver]_vars

\* State called directly, or driven by main
InitAutomaton == InitState \/ InitDriver

NextAutomaton == NextState \/ NextDriver

SpecAutomaton == InitAutomaton /\ [][NextAutomaton]_vars

\* ---------------------------------------------------- claims on the driver
Started(R) == R.pc \in {"running", "done"}

\* the row main starts from: all 0 but cell cols div 2, which holds 3
FirstRow(cols) == [k \in 1..cols |-> IF k - 1 = cols \div 2 THEN 3 ELSE 0]

\* C7: for cols >= 1 a started run hands the renderer one row per pass, rows
\* of them by the time it is done; row 0 is all 0 but for a 3 at cols div 2,
\* every later row is State.apply(rule) of the row before it, and a started
\* run never fails, its next pass included.
C7_RowSequence ==
  \A r \in DOMAIN run :
    LET R == run[r]
    IN opts.cols >= 1 =>
         /\ R.pc = "panicked" => R.j = 0 /\ R.rendered = <<>> /\ ThemesLen(mem) = 0
         /\ Started(R) =>
              /\ Len(R.rendered) = R.j
              /\ R.j <= opts.rows
              /\ R.pc = "done" => Len(R.rendered) = opts.rows
              /\ R.j >= 1 => R.rendered[1] = FirstRow(opts.cols)
              /\ \A k \in 1..(R.j - 1) :
                   R.rendered[k + 1] = StateApply(R.rendered[k], R.rule, build).v
              /\ R.state = IF R.j = 0 THEN FirstRow(opts.cols)
                           ELSE StateApply(R.rendered[R.j], R.rule, build).v
              /\ (R.pc = "running" /\ R.j < opts.rows) =>
                   RowStep(R, opts, build).pc = "running"

C7_Witness ==
  /\ opts.cols = 4
  /\ opts.rows = 3
  /\ run[1].pc = "done"
  /\ Len(run[1].rendered) = 3
  /\ run[1].rendered[1] = <<0, 0, 3, 0>>
  /\ run[1].rendered[2] # run[1].rendered[1]
  /\ run[1].rendered[3] # run[1].rendered[2]
  /\ run[1].rendered[3] # Zeros(4)

\* C8: rule 0 maps each of the 64 codes to 0, so apply maps every row to the
\* all-zero row of the same length, and in a run with rule 0 every rendered
\* row after the first is all zero.
C8_ZeroRule ==
  /\ \A code \in 0..63 : RuleApply(RuleZero, code, build) = [panic |-> FALSE, v |-> 0]
  /\ (stCall.fn = "apply" /\ stCall.rule = RuleZero) =>
       ~stCall.panic /\ st = Zeros(Len(stOld))
  /\ \A r \in DOMAIN run :
       LET R == run[r]
       IN (Started(R) /\ R.rule = RuleZero) =>
            /\ \A k \in 2..Len(R.rendered) : R.rendered[k] = Zeros(opts.cols)
            /\ R.j >= 1 => R.state = Zeros(opts.cols)

C8_Witness ==
  /\ Len(run) = 1
  /\ run[1].optRule = SomeRule(RuleZero)
  /\ run[1].pc = "done"
  /\ opts.cols = 3
  /\ run[1].rendered = <<(<<0, 3, 0>>), (<<0, 0, 0>>), (<<0, 0, 0>>)>>

\* C10: in a run the row always has cols cells, each a symbol in 0..3, so
\* does every rendered row; every code handed to Rule.apply is in 0..63; the
\* painted cells are exactly the cells that are not 0, each indexing the
\* 5-entry palette with 1, 2 or 3; and a started run never fails.
C10_SymbolRange ==
  \A r \in DOMAIN run :
    LET R == run[r]
    IN /\ Started(R) =>
            /\ Len(R.state) = opts.cols
            /\ \A k \in 1..Len(R.state) : R.state[k] \in Symbols
            /\ Len(R.colors) = 5
       /\ \A k \in 1..Len(R.rendered) :
            /\ Len(R.rendered[k]) = opts.cols
            /\ \A i \in 1..opts.cols :
                 /\ R.rendered[k][i] \in Symbols
                 /\ R.rendered[k][i] # 0 <=>
                      [j |-> k - 1, i |-> i - 1, v |-> R.rendered[k][i]] \in R.painted
       /\ \A code \in R.codes : code >= 0 /\ code < 64
       /\ \A c \in R.painted :
            /\ c.v \in {1, 2, 3}
            /\ c.v < Len(R.colors)
            /\ c.j < Len(R.rendered) /\ c.i < opts.cols
            /\ R.rendered[c.j + 1][c.i + 1] = c.v
       /\ R.pc = "panicked" => R.j = 0 /\ (opts.cols = 0 \/ ThemesLen(mem) = 0)

C10_Witness ==
  /\ run[1].pc = "done"
  /\ opts.cols = 4
  /\ opts.rows = 3
  /\ run[1].rule = RuleMax
  /\ 63 \in run[1].codes
  /\ \E c \in run[1].painted : c.v = 1
  /\ \E c \in run[1].painted : c.v = 3

\* C6: two runs on the same seed, store, cols and rows pick the same theme,
\* whatever their rule options; the theme index is the first draw of the
\* seeded stream and the rule, when none is given, the draw after it; with the
\* same rule option the runs use the same rule and render the same rows.
C6_Reproducible ==
  /\ \A a \in DOMAIN run :
       Started(run[a]) =>
         LET u == UniformSample(SeedFromU64(opts.seed), ThemesLen(mem))
         IN /\ run[a].theme = u.ix
            /\ ~run[a].optRule.some => run[a].rule = GenU64(u.rng).bits
            /\ run[a].optRule.some => run[a].rule = run[a].optRule.rule
  /\ \A a \in DOMAIN run, b \in DOMAIN run :
       LET A == run[a]
           B == run[b]
       IN (A.pc # "seeded" /\ B.pc # "seeded") =>
            /\ A.theme = B.theme
            /\ A.colors = B.colors
            /\ (A.pc = "panicked") <=> (B.pc = "panicked")
            /\ A.optRule = B.optRule =>
                 /\ A.rule = B.rule
                 /\ \A k \in 1..Len(A.rendered) :
                      k <= Len(B.rendered) => A.rendered[k] = B.rendered[k]
                 /\ (A.pc = "done" /\ B.pc = "done") =>
                      A.rendered = B.rendered /\ A.painted = B.painted

C6_Witness ==
  /\ Len(run) = 2
  /\ run[1].pc = "done" /\ run[2].pc = "done"
  /\ run[1].optRule = NoRule /\ run[2].optRule = NoRule
  /\ ThemesLen(mem) = 3
  /\ run[1].theme = 1 /\ run[2].theme = 1
  /\ run[1].rule # RuleZero
  /\ opts.rows = 2
  /\ run[1].rendered = run[2].rendered
  /\ run[1].rendered[2] # Zeros(opts.cols)

====
